---------------------------- MODULE Spec2Model ----------------------------
(***************************************************************************)
(* Model of the CRM reconciliation and audit engine (package crm).         *)
(*                                                                         *)
(* The store is the committed content of the database.  Every request and  *)
(* every run of the scheduled job works in a session of its own            *)
(* (database.session_scope): it reads committed rows, keeps the objects it *)
(* loaded in its identity map, buffers its changes (SessionLocal has       *)
(* autoflush=False, so a query never sees a pending object) and writes     *)
(* them when the scope ends: flush and commit, or rollback when the        *)
(* handler raised.  The flush of an UPDATE writes only the columns whose   *)
(* value differs from the value the session loaded.  The writer lock of    *)
(* the database makes flush-and-commit one step.                           *)
(*                                                                         *)
(* Timestamps (datetime.utcnow) are abstracted: sdus is kept in updated_at *)
(* order (the order of the INSERTs), and last_sync_at / executed_at hold   *)
(* the number of the sync run that wrote them.                             *)
(***************************************************************************)
EXTENDS Integers, Sequences, FiniteSets, TLC

\* ------------------------------------------------------------------ bounds
MaxBatch == 2        \* payloads in one fetched batch
MaxSyncRuns == 2     \* sync runs in SpecSync
MaxSalesOps == 2     \* sales-date requests in SpecSales
AllSyncRuns == 1     \* sync runs in Spec
AllSalesOps == 2     \* sales-date requests in Spec
AllIntakeOps == 2    \* create client / create opportunity requests in Spec
AllReportOps == 1    \* dashboard / report requests in Spec
MaxReportOpps == 2   \* stored Opportunities in SpecReports
MaxReportOps == 1    \* dashboard / report requests in SpecReports

\* ------------------------------------------------------------- value sets
Sess == {"t1", "t2"}         \* two threads, each with a transactional scope
Trigger(s) == IF s = "t1" THEN "request" ELSE "job"   \* what starts a sync run there
NoDate == "None"
Dates == {"2024-01-01", "2024-02-01"}
NoOrder == "None"
OrderIds == {"OPP-100", "OPP-101"}
NoRef == "None"
NoStatus == "None"
Actors == {"alice"}
OpportunityStage == {"prospect", "proposal", "negotiation", "won", "lost"}
InvoiceStatus == {"draft", "issued", "paid", "overdue"}

VARIABLES
    clients,     \* table clients: sequence of rows
    opps,        \* table opportunities
    invoices,    \* table invoices
    sdus,        \* table sales_date_updates, in updated_at order
    synclogs,    \* table sync_logs
    remote,      \* the external system: order id -> date it last accepted
    sess,        \* the open transactional scopes and what their handlers hold
    count,       \* operations started, per kind
    limit,       \* operations allowed, per kind (fixed by Init)
    lastCommit,  \* the transaction that committed last
    lastReport   \* what the last reporting request returned

vars == <<clients, opps, invoices, sdus, synclogs, remote, sess,
          count, limit, lastCommit, lastReport>>

Rows(table) == 1..Len(table)

SeqsUpTo(S, n) == UNION {[1..k -> S] : k \in 0..n}

Put(f, k, v) == [x \in (DOMAIN f) \cup {k} |-> IF x = k THEN v ELSE f[x]]

\* ------------------------------------------------------------ rows, values
NoMessage == "None"
NoOutcome == [raises |-> FALSE, success |-> FALSE, reference |-> NoRef,
              message |-> NoMessage]
NoError == [kind |-> "none", msg |-> "", http |-> 200]
NoResult == [processed |-> 0, warnings |-> <<>>, returned |-> FALSE]
NoResponse == [opp |-> 0, previous_date |-> NoDate, new_date |-> NoDate,
               updated_by |-> "", synced_with_infor |-> FALSE,
               sync_reference |-> NoRef]

IdleSession ==
    [op |-> "none", pc |-> "idle", clean |-> TRUE, error |-> NoError,
     \* synchronise_invoices
     trigger |-> "none", run |-> 0, batch |-> <<>>, idx |-> 0,
     processed |-> 0, errors |-> <<>>, invLoaded |-> <<>>, invNew |-> <<>>,
     logNew |-> <<>>, result |-> NoResult, repeat |-> FALSE,
     created |-> 0,
     \* update_sales_date
     opp |-> 0, order |-> NoOrder, loaded_date |-> NoDate,
     expected_close_date |-> NoDate, previous_date |-> NoDate,
     new_date |-> NoDate, updated_by |-> "", calls |-> 0,
     remote_response |-> NoOutcome, synced_with_infor |-> FALSE,
     sync_reference |-> NoRef, sduNew |-> <<>>, response |-> NoResponse]

Free(s) == sess[s].pc \in {"idle", "done"}
InFlight(s) == ~Free(s)

\* A commit by s is seen by every other open scope as an intervening commit.
AfterCommitBy(ss, s) ==
    [t \in Sess |-> IF t # s /\ ss[t].pc \notin {"idle", "done"}
                    THEN [ss[t] EXCEPT !.clean = FALSE] ELSE ss[t]]
AfterCommit(ss) == AfterCommitBy(ss, "none")

\* session_scope, ending: the session is closed, its buffers are gone.
Closed(r, err) ==
    [r EXCEPT !.pc = "done", !.error = err, !.invLoaded = <<>>,
              !.invNew = <<>>, !.logNew = <<>>, !.sduNew = <<>>]

\* ------------------------------------------------- the external invoice feed
Payload(ext, order, amount, issue, due, status, currency) ==
    [external_id |-> ext, opportunity_external_id |-> order, amount |-> amount,
     issue_date |-> issue, due_date |-> due, status |-> status,
     currency |-> currency]

\* What fetch_invoices can return: payloads for two invoices, orders known and
\* unknown to the store, status texts in canonical form, in upper case,
\* unknown, and absent (a JSON null).
FeedPool ==
    {Payload("INV-1001", "OPP-100", 10, "2024-01-01", "2024-01-01", "issued", "USD"),
     Payload("INV-1001", "OPP-100", 20, "2024-02-01", NoDate, "PAID", "EUR"),
     Payload("INV-1001", "OPP-101", 10, "2024-01-01", "2024-01-01", "overdue", "USD"),
     Payload("INV-1002", "OPP-101", 20, "2024-01-01", "2024-01-01", "bogus", "USD"),
     Payload("INV-1002", "OPP-100", 10, "2024-01-01", "2024-01-01", NoStatus, "USD")}

Batches == SeqsUpTo(FeedPool, MaxBatch)

\* str.lower() on the status texts of the feed.
Lower(text) ==
    CASE text = "PAID" -> "paid"
      [] text = "Issued" -> "issued"
      [] OTHER -> text

\* payload.status.lower() on None raises AttributeError, which the handlers
\* for ValueError do not catch.
StatusRaises(text) == text = NoStatus

ResolveStatus(text) ==
    IF text \in InvoiceStatus THEN text
    ELSE IF Lower(text) \in InvoiceStatus THEN Lower(text)
    ELSE "issued"

\* A variant in which the warning names the order, not the invoice.
WarningNamesOrder(payload) ==
    [text |-> "Unknown opportunity for invoice",
     external_id |-> payload.opportunity_external_id]

UnknownOpportunityWarning(payload) ==
    [text |-> "Unknown opportunity for invoice", external_id |-> payload.external_id]

ExceptionText(what) == [text |-> what, external_id |-> "None"]

\* OpportunityRepository.get_by_infor_id: the rows the SELECT matches.
GetByInforId(order) == {o \in Rows(opps) : opps[o].infor_sales_order_id = order}

\* InvoiceRepository.upsert_from_payload: the SELECT runs on the committed
\* rows; with autoflush=False the session's pending Invoices are not in it.
SelectInvoice(ext) == {i \in Rows(invoices) : invoices[i].external_id = ext}

NewInvoice(o, p, status, stamp) ==
    [opportunity |-> o, external_id |-> p.external_id, amount |-> p.amount,
     issue_date |-> p.issue_date, due_date |-> p.due_date, status |-> status,
     currency |-> p.currency, last_sync_at |-> stamp]

\* A variant in which the update branch hands the Invoice to the Opportunity
\* the payload names.
OverwriteMovesInvoice(inv, p, status, stamp) ==
    [inv EXCEPT !.opportunity = CHOOSE o \in GetByInforId(p.opportunity_external_id) : TRUE,
                !.amount = p.amount, !.issue_date = p.issue_date,
                !.due_date = p.due_date, !.status = status,
                !.currency = p.currency, !.last_sync_at = stamp]

\* A variant in which the update branch forgets the currency.
OverwriteKeepsCurrency(inv, p, status, stamp) ==
    [inv EXCEPT !.amount = p.amount, !.issue_date = p.issue_date,
                !.due_date = p.due_date, !.status = status,
                !.last_sync_at = stamp]

Overwrite(inv, p, status, stamp) ==
    [inv EXCEPT !.amount = p.amount, !.issue_date = p.issue_date,
                !.due_date = p.due_date, !.status = status,
                !.currency = p.currency, !.last_sync_at = stamp]

UpsertFromPayload(r, o, p, status) ==
    LET hit == SelectInvoice(p.external_id)
    IN  IF hit = {}
        THEN [r EXCEPT !.invNew = Append(@, NewInvoice(o, p, status, r.run))]
        ELSE LET i == CHOOSE j \in hit : TRUE
                 obj == IF i \in DOMAIN r.invLoaded THEN r.invLoaded[i]
                        ELSE [orig |-> invoices[i], cur |-> invoices[i]]
             IN  [r EXCEPT !.invLoaded =
                     Put(@, i, [obj EXCEPT !.cur = Overwrite(obj.cur, p, status, r.run)])]

\* A variant of the log of a finished run that leaves the warnings out.
SuccessLogDropsWarnings(run, processed, errors) ==
    [sync_type |-> "invoice", executed_at |-> run, success |-> (errors = <<>>),
     details |-> [form |-> "Processed", count |-> processed, notes |-> <<>>]]

SuccessLog(run, processed, errors) ==
    [sync_type |-> "invoice", executed_at |-> run, success |-> (errors = <<>>),
     details |-> [form |-> "Processed", count |-> processed, notes |-> errors]]

FailureLog(run, errors) ==
    [sync_type |-> "invoice", executed_at |-> run, success |-> FALSE,
     details |-> [form |-> "errors", count |-> 0, notes |-> errors]]

\* The except branch of synchronise_invoices: log the failure, raise again.
\* The sync request turns the exception into a 502; the job lets it through.
RaiseInSync(r, what) ==
    [r EXCEPT !.errors = Append(@, ExceptionText(what)),
              !.logNew = Append(@, FailureLog(r.run, Append(r.errors, ExceptionText(what)))),
              !.pc = "raised",
              !.error = [kind |-> what, msg |-> what,
                         http |-> IF r.trigger = "request" THEN 502 ELSE 0]]

\* The flush of a loaded row: an UPDATE of the columns whose value is not the
\* value the session loaded.
FlushRow(row, obj) ==
    [c \in DOMAIN row |-> IF obj.cur[c] # obj.orig[c] THEN obj.cur[c] ELSE row[c]]

Flush(rows, loaded) ==
    [i \in Rows(rows) |-> IF i \in DOMAIN loaded THEN FlushRow(rows[i], loaded[i])
                          ELSE rows[i]]

\* invoices.external_id is unique: the INSERTs of the flush fail when a
\* pending Invoice repeats a stored or another pending external id.
UniqueViolation(new) ==
    \/ \E i \in Rows(new) : SelectInvoice(new[i].external_id) # {}
    \/ \E i, j \in Rows(new) : i # j /\ new[i].external_id = new[j].external_id

\* ------------------------------------------------- synchronise_invoices
SyncBegin(s, trigger) ==
    [IdleSession EXCEPT !.op = "sync", !.trigger = trigger, !.run = count.sync + 1]

SyncFetch(s, trigger, batch) ==
    /\ Free(s) /\ count.sync < limit.sync
    /\ sess' = [sess EXCEPT ![s] =
                  [SyncBegin(s, trigger) EXCEPT !.pc = "loop", !.batch = batch, !.idx = 1]]
    /\ count' = [count EXCEPT !.sync = @ + 1]
    /\ UNCHANGED <<clients, opps, invoices, sdus, synclogs, remote, limit,
                   lastCommit, lastReport>>

SyncFetchRaises(s, trigger) ==
    /\ Free(s) /\ count.sync < limit.sync
    /\ sess' = [sess EXCEPT ![s] = RaiseInSync(SyncBegin(s, trigger), "ConnectionError")]
    /\ count' = [count EXCEPT !.sync = @ + 1]
    /\ UNCHANGED <<clients, opps, invoices, sdus, synclogs, remote, limit,
                   lastCommit, lastReport>>

SyncPayloadStep(r, o, p) ==
    IF StatusRaises(p.status) THEN RaiseInSync(r, "AttributeError")
    ELSE [UpsertFromPayload(r, o, p, ResolveStatus(p.status))
             EXCEPT !.processed = @ + 1, !.idx = @ + 1]

SyncUnknownStep(r, p) ==
    [r EXCEPT !.errors = Append(@, UnknownOpportunityWarning(p)), !.idx = @ + 1]

SyncPayload(s) ==
    /\ sess[s].op = "sync" /\ sess[s].pc = "loop"
    /\ sess[s].idx <= Len(sess[s].batch)
    /\ LET r == sess[s]
           p == r.batch[r.idx]
           found == GetByInforId(p.opportunity_external_id)
       IN  IF found = {}
           THEN sess' = [sess EXCEPT ![s] = SyncUnknownStep(r, p)]
           ELSE \E o \in found : sess' = [sess EXCEPT ![s] = SyncPayloadStep(r, o, p)]
    /\ UNCHANGED <<clients, opps, invoices, sdus, synclogs, remote, count, limit,
                   lastCommit, lastReport>>

SyncFinishStep(r) ==
    [r EXCEPT !.logNew = Append(@, SuccessLog(r.run, r.processed, r.errors)),
              !.result = [processed |-> r.processed, warnings |-> r.errors,
                          returned |-> TRUE],
              !.pc = "commit"]

SyncFinish(s) ==
    /\ sess[s].op = "sync" /\ sess[s].pc = "loop"
    /\ sess[s].idx > Len(sess[s].batch)
    /\ sess' = [sess EXCEPT ![s] = SyncFinishStep(sess[s])]
    /\ UNCHANGED <<clients, opps, invoices, sdus, synclogs, remote, count, limit,
                   lastCommit, lastReport>>

\* session_scope after the handler returned: flush and commit; a failing
\* flush rolls the whole transaction back and the exception goes on.
\* repeat notes that the run repeats the batch of the run that committed last,
\* with no commit since it began; created counts the Invoices it inserts.
CommitSync(s) ==
    /\ sess[s].op = "sync" /\ sess[s].pc = "commit"
    /\ LET r == [sess[s] EXCEPT !.repeat = sess[s].clean /\ lastCommit.op = "sync"
                                            /\ lastCommit.batch = sess[s].batch,
                                 !.created = Len(sess[s].invNew)]
       IN  IF UniqueViolation(r.invNew)
           THEN /\ sess' = [sess EXCEPT ![s] =
                       Closed(r, [kind |-> "IntegrityError", msg |-> "UNIQUE invoices.external_id",
                                  http |-> IF r.trigger = "request" THEN 500 ELSE 0])]
                /\ UNCHANGED <<invoices, synclogs, lastCommit>>
           ELSE /\ invoices' = Flush(invoices, r.invLoaded) \o r.invNew
                /\ synclogs' = synclogs \o r.logNew
                /\ lastCommit' = [op |-> "sync", batch |-> r.batch, run |-> r.run]
                /\ sess' = AfterCommitBy([sess EXCEPT ![s] = Closed(r, NoError)], s)
    /\ UNCHANGED <<clients, opps, sdus, remote, count, limit, lastReport>>

\* A variant of the failing end of a scope that keeps the Invoices added so far.
RollbackKeepsInvoices(s) ==
    /\ sess[s].pc = "raised"
    /\ sess' = [sess EXCEPT ![s] = Closed(sess[s], sess[s].error)]
    /\ invoices' = invoices \o sess[s].invNew
    /\ UNCHANGED <<clients, opps, sdus, synclogs, remote, count, limit,
                   lastCommit, lastReport>>

\* session_scope after the handler raised: rollback, and the exception goes on.
Rollback(s) ==
    /\ sess[s].pc = "raised"
    /\ sess' = [sess EXCEPT ![s] = Closed(sess[s], sess[s].error)]
    /\ UNCHANGED <<clients, opps, invoices, sdus, synclogs, remote, count, limit,
                   lastCommit, lastReport>>

\* ------------------------------------------------------- stores to start from
Opportunity(client, order, date, stage, amount) ==
    [client |-> client, infor_sales_order_id |-> order,
     expected_close_date |-> date, stage |-> stage, amount |-> amount]

Client(ext) == [external_id |-> ext]

\* Stores the program builds: one linked Opportunity; two, linked to two
\* orders, before and after a first sync run stored an Invoice; two linked to
\* the same order (the column is not unique).
FirstInvoice ==
    NewInvoice(1, Payload("INV-1001", "OPP-100", 10, "2024-01-01", "2024-01-01",
                          "issued", "USD"), "issued", 0)

SyncStores ==
    {[opps |-> <<Opportunity(1, "OPP-100", NoDate, "prospect", 100)>>,
      invoices |-> <<>>, synclogs |-> <<>>],
     [opps |-> <<Opportunity(1, "OPP-100", NoDate, "prospect", 100),
                 Opportunity(1, "OPP-101", "2024-01-01", "won", 50)>>,
      invoices |-> <<>>, synclogs |-> <<>>],
     [opps |-> <<Opportunity(1, "OPP-100", NoDate, "prospect", 100),
                 Opportunity(1, "OPP-101", "2024-01-01", "won", 50)>>,
      invoices |-> <<FirstInvoice>>, synclogs |-> <<SuccessLog(0, 1, <<>>)>>],
     [opps |-> <<Opportunity(1, "OPP-100", NoDate, "prospect", 100),
                 Opportunity(1, "OPP-100", "2024-01-01", "lost", 50)>>,
      invoices |-> <<>>, synclogs |-> <<>>]}

NoCount == [sync |-> 0, sales |-> 0, intake |-> 0, report |-> 0]
NoCommit == [op |-> "none", batch |-> <<>>, run |-> 0]
NoReport == [kind |-> "none"]

InitSync ==
    /\ clients = <<Client("None")>>
    /\ \E st \in SyncStores :
          opps = st.opps /\ invoices = st.invoices /\ synclogs = st.synclogs
    /\ sdus = <<>>
    /\ remote = [o \in OrderIds |-> NoDate]
    /\ sess = [s \in Sess |-> IdleSession]
    /\ count = NoCount
    /\ limit = [NoCount EXCEPT !.sync = MaxSyncRuns]
    /\ lastCommit = NoCommit
    /\ lastReport = NoReport

NextSync ==
    \/ \E s \in Sess, b \in Batches : SyncFetch(s, Trigger(s), b)
    \/ \E s \in Sess : SyncFetchRaises(s, Trigger(s))
    \/ \E s \in Sess : SyncPayload(s)
    \/ \E s \in Sess : SyncFinish(s)
    \/ \E s \in Sess : CommitSync(s)
    \/ \E s \in Sess : Rollback(s)

SpecSync == InitSync /\ [][NextSync]_vars

\* ----------------------------------------------------- update_sales_date
\* An opportunity id of a request: a text that is a UUID or not, and the row
\* the UUID names (a row number past the table names no row).
MalformedId == [uuid |-> FALSE, row |-> 0]
RequestIds == {MalformedId} \cup {[uuid |-> TRUE, row |-> n] : n \in 1..(Len(opps) + 1)}

\* What update_sale_date can do: report success with the updateId of the
\* answer (which may be missing), report a rejection with or without a
\* message, or raise a transport failure (requests raises, nothing catches).
RemoteOutcomes ==
    {[raises |-> FALSE, success |-> TRUE, reference |-> "UPD-1", message |-> "ok"],
     [raises |-> FALSE, success |-> TRUE, reference |-> NoRef, message |-> NoMessage],
     [raises |-> FALSE, success |-> FALSE, reference |-> NoRef, message |-> "quota exceeded"],
     [raises |-> FALSE, success |-> FALSE, reference |-> NoRef, message |-> NoMessage],
     [raises |-> TRUE, success |-> FALSE, reference |-> NoRef, message |-> NoMessage]}

\* api.update_sales_date: ValueError becomes a 400, RuntimeError a 502, any
\* other exception is not caught.
ValueError(msg) == [kind |-> "ValueError", msg |-> msg, http |-> 400]
RuntimeError(msg) == [kind |-> "RuntimeError", msg |-> msg, http |-> 502]
Uncaught(kind) == [kind |-> kind, msg |-> kind, http |-> 500]

SalesBegin(id, new_date, by) ==
    [IdleSession EXCEPT !.op = "sales", !.new_date = new_date, !.updated_by = by]

\* A variant that reaches the external system before it looks the id up.
SalesResolveCallsFirst(id, new_date, by) ==
    LET r == [SalesBegin(id, new_date, by) EXCEPT !.calls = 1]
    IN  IF ~id.uuid
        THEN [r EXCEPT !.pc = "raised", !.error = ValueError("Invalid opportunity id")]
        ELSE IF id.row \notin Rows(opps)
        THEN [r EXCEPT !.pc = "raised", !.error = ValueError("Opportunity not found")]
        ELSE [r EXCEPT !.opp = id.row,
                       !.order = opps[id.row].infor_sales_order_id,
                       !.loaded_date = opps[id.row].expected_close_date,
                       !.previous_date = opps[id.row].expected_close_date,
                       !.expected_close_date = new_date,
                       !.calls = 0,
                       !.pc = IF opps[id.row].infor_sales_order_id # NoOrder
                              THEN "remote" ELSE "record"]

\* A variant that reads previous_date after the new date has been set.
SalesResolveReadsLate(id, new_date, by) ==
    LET r == SalesBegin(id, new_date, by)
    IN  IF ~id.uuid
        THEN [r EXCEPT !.pc = "raised", !.error = ValueError("Invalid opportunity id")]
        ELSE IF id.row \notin Rows(opps)
        THEN [r EXCEPT !.pc = "raised", !.error = ValueError("Opportunity not found")]
        ELSE [r EXCEPT !.opp = id.row,
                       !.order = opps[id.row].infor_sales_order_id,
                       !.loaded_date = opps[id.row].expected_close_date,
                       !.previous_date = new_date,
                       !.expected_close_date = new_date,
                       !.pc = IF opps[id.row].infor_sales_order_id # NoOrder
                              THEN "remote" ELSE "record"]

\* services.py 75-87: resolve the Opportunity, keep its date, set the new one.
SalesResolveStep(id, new_date, by) ==
    LET r == SalesBegin(id, new_date, by)
    IN  IF ~id.uuid
        THEN [r EXCEPT !.pc = "raised", !.error = ValueError("Invalid opportunity id")]
        ELSE IF id.row \notin Rows(opps)
        THEN [r EXCEPT !.pc = "raised", !.error = ValueError("Opportunity not found")]
        ELSE [r EXCEPT !.opp = id.row,
                       !.order = opps[id.row].infor_sales_order_id,
                       !.loaded_date = opps[id.row].expected_close_date,
                       !.previous_date = opps[id.row].expected_close_date,
                       !.expected_close_date = new_date,
                       !.pc = IF opps[id.row].infor_sales_order_id # NoOrder
                              THEN "remote" ELSE "record"]

SalesResolve(s, id, new_date, by) ==
    /\ Free(s) /\ count.sales < limit.sales
    /\ sess' = [sess EXCEPT ![s] = SalesResolveStep(id, new_date, by)]
    /\ count' = [count EXCEPT !.sales = @ + 1]
    /\ UNCHANGED <<clients, opps, invoices, sdus, synclogs, remote, limit,
                   lastCommit, lastReport>>

\* A variant that goes on to the audit record whatever the outcome says.
SalesRemoteIgnoresRejection(r, outcome) ==
    IF outcome.raises
    THEN [r EXCEPT !.calls = @ + 1, !.pc = "raised", !.remote_response = outcome,
                   !.error = Uncaught("ConnectionError")]
    ELSE [r EXCEPT !.calls = @ + 1, !.pc = "record", !.remote_response = outcome,
                   !.synced_with_infor = outcome.success,
                   !.sync_reference = outcome.reference]

\* services.py 91-99: one call of update_sale_date, then the outcome decides.
SalesRemoteStep(r, outcome) ==
    IF outcome.raises
    THEN [r EXCEPT !.calls = @ + 1, !.pc = "raised", !.remote_response = outcome,
                   !.error = Uncaught("ConnectionError")]
    ELSE IF ~outcome.success
    THEN [r EXCEPT !.calls = @ + 1, !.pc = "raised", !.remote_response = outcome,
                   !.synced_with_infor = FALSE, !.sync_reference = outcome.reference,
                   !.error = RuntimeError(IF outcome.message # NoMessage THEN outcome.message
                                          ELSE "Failed to update Infor Skyline")]
    ELSE [r EXCEPT !.calls = @ + 1, !.pc = "record", !.remote_response = outcome,
                   !.synced_with_infor = TRUE, !.sync_reference = outcome.reference]

\* The external system keeps the date of an update it accepted.
RemoteAfter(rem, r, outcome) ==
    IF ~outcome.raises /\ outcome.success
    THEN [rem EXCEPT ![r.order] = r.new_date] ELSE rem

SalesRemote(s, outcome) ==
    /\ sess[s].op = "sales" /\ sess[s].pc = "remote"
    /\ sess' = [sess EXCEPT ![s] = SalesRemoteStep(sess[s], outcome)]
    /\ remote' = RemoteAfter(remote, sess[s], outcome)
    /\ UNCHANGED <<clients, opps, invoices, sdus, synclogs, count, limit,
                   lastCommit, lastReport>>

\* A variant of the audit record that is flagged as synced whatever happened.
SalesDateUpdateAlwaysSynced(r) ==
    [opp |-> r.opp, previous_date |-> r.previous_date, new_date |-> r.new_date,
     updated_by |-> r.updated_by, synced_with_infor |-> TRUE,
     sync_reference |-> r.sync_reference]

\* A variant of the audit record that leaves the remote reference out.
SalesDateUpdateDropsReference(r) ==
    [opp |-> r.opp, previous_date |-> r.previous_date, new_date |-> r.new_date,
     updated_by |-> r.updated_by, synced_with_infor |-> r.synced_with_infor,
     sync_reference |-> NoRef]

\* SalesDateUpdateRepository.record
SalesDateUpdate(r) ==
    [opp |-> r.opp, previous_date |-> r.previous_date, new_date |-> r.new_date,
     updated_by |-> r.updated_by, synced_with_infor |-> r.synced_with_infor,
     sync_reference |-> r.sync_reference]

\* A variant that records the update twice.
SalesRecordsTwice(r) ==
    [r EXCEPT !.sduNew = Append(Append(@, SalesDateUpdate(r)), SalesDateUpdate(r)),
              !.pc = "commit"]

SalesRecordStep(r) ==
    [r EXCEPT !.sduNew = Append(@, SalesDateUpdate(r)), !.pc = "commit"]

SalesRecord(s) ==
    /\ sess[s].op = "sales" /\ sess[s].pc = "record"
    /\ sess' = [sess EXCEPT ![s] = SalesRecordStep(sess[s])]
    /\ UNCHANGED <<clients, opps, invoices, sdus, synclogs, remote, count, limit,
                   lastCommit, lastReport>>

\* The flush of the Opportunity: expected_close_date is in the UPDATE only
\* when the session changed it (updated_at always is).
FlushOpportunity(rows, r) ==
    [rows EXCEPT ![r.opp].expected_close_date =
        IF r.expected_close_date # r.loaded_date THEN r.expected_close_date ELSE @]

\* A variant of the INSERT that replaces the table by the new rows.
ReplaceUpdates(rows, new) == new

\* The flush of the pending SalesDateUpdate objects: INSERTs, nothing else.
InsertUpdates(rows, new) == rows \o new

\* Opportunity.sales_date_updates, ordered by updated_at
History(rows, o) == SelectSeq(rows, LAMBDA u : u.opp = o)

\* api.py 90-96 and session_scope: flush, refresh, answer with the last
\* update of the history, commit.  response is the row the handler picks
\* (updates[-1]); the shaping of that row into the response schema belongs to
\* the transport layer and is not modelled.
CommitSales(s) ==
    /\ sess[s].op = "sales" /\ sess[s].pc = "commit"
    /\ LET r == sess[s]
           flushed == InsertUpdates(sdus, r.sduNew)
           updates == History(flushed, r.opp)
       IN  IF updates = <<>>
           THEN /\ sess' = [sess EXCEPT ![s] =
                       Closed(r, [kind |-> "HTTPException",
                                  msg |-> "Sales date update not persisted", http |-> 500])]
                /\ UNCHANGED <<opps, sdus, lastCommit>>
           ELSE /\ opps' = FlushOpportunity(opps, r)
                /\ sdus' = flushed
                /\ lastCommit' = [op |-> "sales", batch |-> <<>>, run |-> 0]
                /\ sess' = AfterCommitBy(
                       [sess EXCEPT ![s] =
                           [Closed(r, NoError) EXCEPT !.response = updates[Len(updates)]]], s)
    /\ UNCHANGED <<clients, invoices, synclogs, remote, count, limit, lastReport>>

SalesStores ==
    {<<Opportunity(1, NoOrder, NoDate, "prospect", 100),
       Opportunity(1, "OPP-100", "2024-01-01", "proposal", 50)>>,
     <<Opportunity(1, "OPP-100", NoDate, "negotiation", 100)>>}

InitSales ==
    /\ clients = <<Client("None")>>
    /\ opps \in SalesStores
    /\ invoices = <<>> /\ sdus = <<>> /\ synclogs = <<>>
    /\ remote = [o \in OrderIds |-> NoDate]
    /\ sess = [s \in Sess |-> IdleSession]
    /\ count = NoCount
    /\ limit = [NoCount EXCEPT !.sales = MaxSalesOps]
    /\ lastCommit = NoCommit
    /\ lastReport = NoReport

NextSales ==
    \/ \E s \in Sess, id \in RequestIds, d \in Dates, by \in Actors :
          SalesResolve(s, id, d, by)
    \/ \E s \in Sess, outcome \in RemoteOutcomes : SalesRemote(s, outcome)
    \/ \E s \in Sess : SalesRecord(s)
    \/ \E s \in Sess : CommitSales(s)
    \/ \E s \in Sess : Rollback(s)

SpecSales == InitSales /\ [][NextSales]_vars

\* ------------------------------------------------------ intake requests
\* A request of its own scope that runs to its end in one step: it marks the
\* open scopes as overtaken and is the last commit.
Committed(op) ==
    /\ sess' = AfterCommit(sess)
    /\ lastCommit' = [op |-> op, batch |-> <<>>, run |-> 0]

\* api.create_client: clients.external_id is unique; the flush of a repeated
\* one raises and the scope rolls back.
CreateClient(ext) ==
    /\ Free("t1") /\ count.intake < limit.intake
    /\ count' = [count EXCEPT !.intake = @ + 1]
    /\ IF ext # "None" /\ \E c \in Rows(clients) : clients[c].external_id = ext
       THEN UNCHANGED <<clients, sess, lastCommit>>
       ELSE clients' = Append(clients, Client(ext)) /\ Committed("intake")
    /\ UNCHANGED <<opps, invoices, sdus, synclogs, remote, limit, lastReport>>

\* api.create_opportunity: 400 for a malformed client id, 404 for an absent
\* Client, else the Opportunity is added.
CreateOpportunity(id, order, date, stage, amount) ==
    /\ Free("t1") /\ count.intake < limit.intake
    /\ count' = [count EXCEPT !.intake = @ + 1]
    /\ IF ~id.uuid \/ id.row \notin Rows(clients)
       THEN UNCHANGED <<opps, sess, lastCommit>>
       ELSE /\ opps' = Append(opps, Opportunity(id.row, order, date, stage, amount))
            /\ Committed("intake")
    /\ UNCHANGED <<clients, invoices, sdus, synclogs, remote, limit, lastReport>>

\* ----------------------------------------------------------- reporting
RECURSIVE SumAmount(_)
SumAmount(rows) ==
    IF rows = <<>> THEN 0 ELSE Head(rows).amount + SumAmount(Tail(rows))

\* A variant of the open list that leaves lost Opportunities out as well.
ListOpenSkipsLost(rows) == SelectSeq(rows, LAMBDA o : o.stage \notin {"won", "lost"})

\* OpportunityRepository.list_open
ListOpen(rows) == SelectSeq(rows, LAMBDA o : o.stage # "won")

BuildSalesDashboard ==
    [kind |-> "dashboard", error |-> NoError, opportunity |-> 0, invoices |-> <<>>,
     total_open_pipeline |-> SumAmount(ListOpen(opps)),
     total_invoiced |-> SumAmount(invoices),
     total_paid |-> SumAmount(SelectSeq(invoices, LAMBDA v : v.status = "paid")),
     overdue_invoices |-> Len(SelectSeq(invoices, LAMBDA v : v.status = "overdue"))]

\* Opportunity.invoices
InvoicesOf(o) == SelectSeq(invoices, LAMBDA v : v.opportunity = o)

\* build_opportunity_report raises ValueError; api.opportunity_report does
\* not catch it.
ReportFailure(msg) ==
    [kind |-> "report", error |-> [kind |-> "ValueError", msg |-> msg, http |-> 500],
     opportunity |-> 0, invoices |-> <<>>, total_open_pipeline |-> 0,
     total_invoiced |-> 0, total_paid |-> 0, overdue_invoices |-> 0]

BuildOpportunityReport(id) ==
    IF ~id.uuid THEN ReportFailure("Invalid opportunity id")
    ELSE IF id.row \notin Rows(opps) THEN ReportFailure("Opportunity not found")
    ELSE [kind |-> "report", error |-> NoError, opportunity |-> id.row,
          invoices |-> InvoicesOf(id.row), total_open_pipeline |-> 0,
          total_invoiced |-> 0, total_paid |-> 0, overdue_invoices |-> 0]

\* A variant of the dashboard request that writes a SyncLog of its own.
DashboardWritesLog ==
    /\ Free("t1") /\ count.report < limit.report
    /\ count' = [count EXCEPT !.report = @ + 1]
    /\ lastReport' = BuildSalesDashboard
    /\ synclogs' = Append(synclogs, SuccessLog(0, 0, <<>>))
    /\ UNCHANGED <<clients, opps, invoices, sdus, remote, sess, limit, lastCommit>>

Dashboard ==
    /\ Free("t1") /\ count.report < limit.report
    /\ count' = [count EXCEPT !.report = @ + 1]
    /\ lastReport' = BuildSalesDashboard
    /\ UNCHANGED <<clients, opps, invoices, sdus, synclogs, remote, sess, limit,
                   lastCommit>>

\* A variant of the report request that pushes the Opportunity's date to the
\* external system.
OpportunityReportCallsRemote(id) ==
    /\ Free("t1") /\ count.report < limit.report
    /\ count' = [count EXCEPT !.report = @ + 1]
    /\ lastReport' = BuildOpportunityReport(id)
    /\ remote' = [o \in OrderIds |-> "2024-01-01"]
    /\ UNCHANGED <<clients, opps, invoices, sdus, synclogs, sess, limit, lastCommit>>

OpportunityReport(id) ==
    /\ Free("t1") /\ count.report < limit.report
    /\ count' = [count EXCEPT !.report = @ + 1]
    /\ lastReport' = BuildOpportunityReport(id)
    /\ UNCHANGED <<clients, opps, invoices, sdus, synclogs, remote, sess, limit,
                   lastCommit>>

\* ------------------------------------------------- stores to report on
\* Opportunities in every stage and Invoices in every status, with integer
\* amounts; each Invoice has its own external id and an owner that is stored.
ReportOpportunities ==
    SeqsUpTo({Opportunity(1, NoOrder, NoDate, stage, amount) :
                 stage \in {"prospect", "won", "lost"}, amount \in {50, 100}},
             MaxReportOpps)

InvoiceNumbers == <<"INV-1001", "INV-1002">>

ReportInvoice(n, owner, status, amount) ==
    NewInvoice(owner, Payload(InvoiceNumbers[n], NoOrder, amount, "2024-01-01",
                              NoDate, status, "USD"), status, 0)

ReportInvoices(owners) ==
    UNION {{[n \in 1..k |-> ReportInvoice(n, c[n][1], c[n][2], c[n][3])] :
               c \in [1..k -> owners \X InvoiceStatus \X {20, 30}]} :
           k \in 0..Len(InvoiceNumbers)}

InitReports ==
    /\ clients = <<Client("None")>>
    /\ opps \in ReportOpportunities
    /\ invoices \in ReportInvoices(Rows(opps))
    /\ sdus = <<>> /\ synclogs = <<>>
    /\ remote = [o \in OrderIds |-> NoDate]
    /\ sess = [s \in Sess |-> IdleSession]
    /\ count = NoCount
    /\ limit = [NoCount EXCEPT !.report = MaxReportOps]
    /\ lastCommit = NoCommit
    /\ lastReport = NoReport

NextReports ==
    \/ Dashboard
    \/ \E id \in RequestIds : OpportunityReport(id)

SpecReports == InitReports /\ [][NextReports]_vars

\* ------------------------------------------------------- the whole system
Init ==
    /\ clients = <<>> /\ opps = <<>>
    /\ invoices = <<>> /\ sdus = <<>> /\ synclogs = <<>>
    /\ remote = [o \in OrderIds |-> NoDate]
    /\ sess = [s \in Sess |-> IdleSession]
    /\ count = NoCount
    /\ limit = [sync |-> AllSyncRuns, sales |-> AllSalesOps,
                intake |-> AllIntakeOps, report |-> AllReportOps]
    /\ lastCommit = NoCommit
    /\ lastReport = NoReport

ClientIds == {MalformedId} \cup {[uuid |-> TRUE, row |-> n] : n \in 1..(Len(clients) + 1)}

\* Requests are served one at a time by thread t1 while the scheduler's
\* thread t2 runs the invoice-sync job on batches of at most one payload.
ShortBatches == {b \in Batches : Len(b) <= 1}

Next ==
    \/ \E ext \in {"None", "CL-1"} : CreateClient(ext)
    \/ \E id \in ClientIds, order \in {NoOrder, "OPP-100"}, date \in {NoDate, "2024-01-01"} :
          CreateOpportunity(id, order, date, "prospect", 100)
    \/ \E id \in RequestIds, d \in Dates, by \in Actors : SalesResolve("t1", id, d, by)
    \/ \E outcome \in RemoteOutcomes : SalesRemote("t1", outcome)
    \/ SalesRecord("t1")
    \/ CommitSales("t1")
    \/ \E b \in ShortBatches : SyncFetch("t2", Trigger("t2"), b)
    \/ SyncFetchRaises("t2", Trigger("t2"))
    \/ SyncPayload("t2")
    \/ SyncFinish("t2")
    \/ CommitSync("t2")
    \/ \E s \in Sess : Rollback(s)
    \/ Dashboard
    \/ \E id \in RequestIds : OpportunityReport(id)

Spec == Init /\ [][Next]_vars

\* ======================================================= the claims
\* An order id that some stored Opportunity carries.
Known(order) == \E o \in Rows(opps) : opps[o].infor_sales_order_id = order

\* The positions of a batch whose payload resolves to an Opportunity.
ResolvedIn(batch) == {k \in Rows(batch) : Known(batch[k].opportunity_external_id)}

\* The last resolved payload of a batch for the external id of position k.
LatestFor(batch, k) ==
    LET same == {j \in ResolvedIn(batch) : batch[j].external_id = batch[k].external_id}
    IN  batch[CHOOSE j \in same : \A h \in same : h <= j]

StoredFor(ext) == {i \in Rows(invoices) : invoices[i].external_id = ext}

CanonicalStatus(text) ==
    CASE text \in {"draft", "issued", "paid", "overdue"} -> text
      [] text = "PAID" -> "paid"
      [] OTHER -> "issued"

HoldsPayload(inv, p) ==
    /\ inv.amount = p.amount /\ inv.issue_date = p.issue_date
    /\ inv.due_date = p.due_date /\ inv.currency = p.currency
    /\ inv.status = CanonicalStatus(p.status)

SyncRun(r) == r.op = "sync"
EndedRun(r) == r.op = "sync" /\ r.pc = "done"

\* C1 - Idempotent upsert: a sync run that repeats, with no commit in between,
\* the batch of the sync run that committed just before it commits too,
\* creates no Invoice, and leaves exactly one stored Invoice for every external
\* id of the batch that resolved to an Opportunity, holding the values of the
\* (latest) payload for that id.
IdempotentUpsert ==
    \A s \in Sess :
        LET r == sess[s]
        IN  (EndedRun(r) /\ r.repeat) =>
              /\ r.error = NoError
              /\ r.created = 0
              /\ lastCommit.run = r.run =>
                    \A k \in ResolvedIn(r.batch) :
                        /\ Cardinality(StoredFor(r.batch[k].external_id)) = 1
                        /\ \A i \in StoredFor(r.batch[k].external_id) :
                              HoldsPayload(invoices[i], LatestFor(r.batch, k))

\* C1 witness: a repeated run has committed a batch of two resolved payloads
\* for one external id that differ in amount.
IdempotentUpsertWitness ==
    \E s \in Sess :
        LET r == sess[s]
        IN  /\ EndedRun(r) /\ r.repeat /\ r.error = NoError /\ lastCommit.run = r.run
            /\ Len(r.batch) = 2 /\ ResolvedIn(r.batch) = {1, 2}
            /\ r.batch[1].external_id = r.batch[2].external_id
            /\ r.batch[1].amount # r.batch[2].amount

\* C2 - Stable upsert key: every sync run that processed all its payloads, with
\* no commit by another scope since it began, completes and commits, and the
\* store then holds exactly one Invoice for every external id of the batch that
\* resolved, also when the id occurs in more than one payload of the batch.
StableUpsertKey ==
    \A s \in Sess :
        LET r == sess[s]
        IN  (EndedRun(r) /\ r.result.returned /\ r.clean) =>
              /\ r.error = NoError
              /\ lastCommit.run = r.run =>
                    \A k \in ResolvedIn(r.batch) :
                        Cardinality(StoredFor(r.batch[k].external_id)) = 1

RECURSIVE WarningsFor(_, _)
WarningsFor(batch, n) ==
    IF n = 0 THEN <<>>
    ELSE IF Known(batch[n].opportunity_external_id) THEN WarningsFor(batch, n - 1)
    ELSE Append(WarningsFor(batch, n - 1),
                [text |-> "Unknown opportunity for invoice",
                 external_id |-> batch[n].external_id])

KnownExternalIds(batch, n) ==
    {batch[k].external_id : k \in {j \in ResolvedIn(batch) : j <= n}}

\* C3 - Unknown-opportunity tolerance: while a sync run works through its
\* batch and after it returned, its warnings are exactly one warning, carrying
\* the external invoice id, for each payload handled so far whose order matches
\* no stored Opportunity, in batch order; such a payload counts as not
\* processed and creates or updates no Invoice; the run never stops at it: a
\* run that returned has handled every payload, and a run that raised did so in
\* the fetch or at a payload whose order is known.
UnknownOpportunityTolerance ==
    \A s \in Sess :
        LET r == sess[s]
            n == r.idx - 1
        IN  /\ (SyncRun(r) /\ (r.pc \in {"loop", "commit"} \/ r.result.returned)) =>
                  /\ r.errors = WarningsFor(r.batch, n)
                  /\ r.processed = Cardinality({k \in ResolvedIn(r.batch) : k <= n})
                  /\ \A i \in Rows(r.invNew) :
                        r.invNew[i].external_id \in KnownExternalIds(r.batch, n)
                  /\ \A i \in DOMAIN r.invLoaded :
                        r.invLoaded[i].cur.external_id \in KnownExternalIds(r.batch, n)
                  /\ (r.pc # "loop" => n = Len(r.batch))
            /\ (SyncRun(r) /\ r.pc \in {"raised", "done"} /\ ~r.result.returned) =>
                  \/ r.idx = 0
                  \/ r.idx \in ResolvedIn(r.batch)

\* C3 witness: a run whose first payload names an unknown order and whose
\* second payload resolved has committed: one warning, one Invoice processed.
UnknownOpportunityWitness ==
    \E s \in Sess :
        LET r == sess[s]
        IN  /\ EndedRun(r) /\ r.result.returned /\ r.error = NoError
            /\ Len(r.batch) = 2 /\ ResolvedIn(r.batch) = {2}
            /\ Len(r.errors) = 1 /\ r.processed = 1
            /\ lastCommit.run = r.run
            /\ StoredFor(r.batch[2].external_id) # {}

\* C4 - Batch failure logging: after a sync run whose fetch raised has ended,
\* the store holds exactly one SyncLog of that run, with success = false.
BatchFailureLogged ==
    \A s \in Sess :
        LET r == sess[s]
        IN  (EndedRun(r) /\ r.error.kind = "ConnectionError") =>
              /\ Cardinality({i \in Rows(synclogs) : synclogs[i].executed_at = r.run}) = 1
              /\ \A i \in Rows(synclogs) :
                    synclogs[i].executed_at = r.run => ~synclogs[i].success

\* C5 - One SyncLog per run: a run that processed all its payloads writes
\* exactly one SyncLog, successful iff it has no warnings, and when no run is
\* in flight the store holds as many SyncLogs of the runs as runs were started.
OneSyncLogPerRun ==
    /\ \A s \in Sess :
          (SyncRun(sess[s]) /\ sess[s].pc = "commit") =>
              /\ Len(sess[s].logNew) = 1
              /\ sess[s].logNew[1].success = (sess[s].result.warnings = <<>>)
    /\ (\A s \in Sess : Free(s)) =>
          Cardinality({i \in Rows(synclogs) : synclogs[i].executed_at >= 1}) = count.sync


\* ------------------------------------------------ update_sales_date claims
\* A call of update_sales_date that found its Opportunity.
SalesCall(r) == r.op = "sales" /\ r.opp # 0

\* The call met a rejection of the external system that carries a message.
RejectedWithMessage(r) ==
    /\ SalesCall(r) /\ r.order # NoOrder /\ r.calls >= 1
    /\ ~r.remote_response.raises /\ ~r.remote_response.success
    /\ r.remote_response.message # NoMessage

\* The audit record the call owes: the date held before it, the new date, the
\* actor, and the given sync flag and reference.
OwedUpdate(r, synced, reference) ==
    [opp |-> r.opp, previous_date |-> r.loaded_date, new_date |-> r.new_date,
     updated_by |-> r.updated_by, synced_with_infor |-> synced,
     sync_reference |-> reference]

\* C6 - External rejection: when update_sale_date answers success = false with
\* a message for an Opportunity that has an order id, the call fails with a
\* RuntimeError carrying that message (a 502 at the API), holds no
\* SalesDateUpdate to insert, and the end of its scope changes neither the
\* Opportunity table nor the SalesDateUpdate table: with no commit of
\* another scope in between, the stored expected_close_date is the date read
\* before the call.
UpstreamRejection ==
    /\ [](\A s \in Sess :
            RejectedWithMessage(sess[s]) =>
                /\ sess[s].pc \in {"raised", "done"}
                /\ sess[s].error = RuntimeError(sess[s].remote_response.message)
                /\ sess[s].error.http = 502
                /\ sess[s].sduNew = <<>>)
    /\ [][\A s \in Sess :
            (RejectedWithMessage(sess[s]) /\ sess[s].pc = "raised" /\ sess'[s].pc = "done") =>
                /\ opps' = opps /\ sdus' = sdus
                /\ sess[s].clean =>
                      opps'[sess[s].opp].expected_close_date = sess[s].previous_date]_vars

UpstreamRejectionWitness ==
    \E s \in Sess :
        /\ RejectedWithMessage(sess[s]) /\ sess[s].pc = "done"
        /\ sess[s].remote_response.message = "quota exceeded"
        /\ sess[s].error.msg = "quota exceeded"
        /\ sess[s].new_date # sess[s].previous_date
        /\ opps[sess[s].opp].expected_close_date = sess[s].previous_date
        /\ History(sdus, sess[s].opp) = <<>>

\* C7 - No external link: for an Opportunity without an order id the call
\* makes no call of update_sale_date, sets expected_close_date of the
\* Opportunity to the new date and records exactly one SalesDateUpdate, with
\* the date held before the call, the new date, synced_with_infor = false and
\* no sync_reference; that record is the one the request handler picks.
LocalUpdate ==
    \A s \in Sess :
        LET r == sess[s]
        IN  (SalesCall(r) /\ r.order = NoOrder) =>
              /\ r.calls = 0
              /\ r.expected_close_date = r.new_date
              /\ r.pc \in {"record", "commit", "done"}
              /\ r.pc = "record" => r.sduNew = <<>>
              /\ r.pc = "commit" => r.sduNew = <<OwedUpdate(r, FALSE, NoRef)>>
              /\ r.pc = "done" => /\ r.error = NoError
                                  /\ r.response = OwedUpdate(r, FALSE, NoRef)

LocalUpdateWitness ==
    \E s \in Sess :
        /\ SalesCall(sess[s]) /\ sess[s].order = NoOrder /\ sess[s].pc = "done"
        /\ sess[s].loaded_date # sess[s].new_date
        /\ sess[s].response.previous_date = NoDate
        /\ sess[s].response.new_date = sess[s].new_date
        /\ \E i \in Rows(sdus) : sdus[i] = sess[s].response

\* C8 - Remote confirmed: for an Opportunity with an order id the call makes
\* exactly one call of update_sale_date, after the local date was set and
\* before any SalesDateUpdate exists; a successful outcome is followed by
\* exactly one SalesDateUpdate with synced_with_infor = true and the
\* reference of the outcome, the Opportunity holding the new date.
RemoteConfirmed ==
    \A s \in Sess :
        LET r == sess[s]
        IN  (SalesCall(r) /\ r.order # NoOrder) =>
              /\ r.expected_close_date = r.new_date
              /\ r.pc = "remote" => r.calls = 0 /\ r.sduNew = <<>>
              /\ r.pc # "remote" => r.calls = 1
              /\ r.pc \in {"record", "commit"} =>
                    ~r.remote_response.raises /\ r.remote_response.success
              /\ r.pc = "record" => r.sduNew = <<>>
              /\ r.pc = "commit" =>
                    r.sduNew = <<OwedUpdate(r, TRUE, r.remote_response.reference)>>
              /\ (r.pc = "done" /\ r.error = NoError) =>
                    /\ r.remote_response.success
                    /\ r.response = OwedUpdate(r, TRUE, r.remote_response.reference)

RemoteConfirmedWitness ==
    \E s \in Sess :
        /\ SalesCall(sess[s]) /\ sess[s].order # NoOrder /\ sess[s].pc = "done"
        /\ sess[s].error = NoError /\ sess[s].calls = 1
        /\ sess[s].response.synced_with_infor
        /\ sess[s].response.sync_reference = "UPD-1"
        /\ sess[s].response.previous_date # sess[s].response.new_date
        /\ remote[sess[s].order] = sess[s].new_date

\* C9 - Date follows history: in every committed state, an Opportunity that
\* has a SalesDateUpdate holds as expected_close_date the new_date of the
\* last SalesDateUpdate of its history.
DateFollowsHistory ==
    \A o \in Rows(opps) :
        LET updates == History(sdus, o)
        IN  updates # <<>> =>
              opps[o].expected_close_date = updates[Len(updates)].new_date

\* C10 - Append-only history: no operation of the system modifies or removes
\* a stored SalesDateUpdate; every step leaves the stored records as they are
\* and at most adds records after them.
AppendOnlyHistory ==
    [][/\ Len(sdus') >= Len(sdus)
       /\ SubSeq(sdus', 1, Len(sdus)) = sdus]_vars

AppendOnlyHistoryWitness ==
    /\ Len(sdus) >= 2
    /\ sdus[1].opp = sdus[2].opp
    /\ sdus[2].previous_date = sdus[1].new_date


\* A call of update_sales_date whose id is malformed or names no Opportunity.
Unresolved(r) == r.op = "sales" /\ r.opp = 0

\* C11 - Unresolved id: a call of update_sales_date with a malformed id or an
\* id of no stored Opportunity fails with the ValueError of the lookup (a 400
\* at the API) before anything else: it has made no call of update_sale_date,
\* holds no changed date and no SalesDateUpdate, and neither its failing step
\* nor the end of its scope changes the Opportunity table, the
\* SalesDateUpdate table or the external system.
UnresolvedFailsFirst ==
    /\ [](\A s \in Sess :
            Unresolved(sess[s]) =>
                /\ sess[s].pc \in {"raised", "done"}
                /\ sess[s].error \in {ValueError("Invalid opportunity id"),
                                      ValueError("Opportunity not found")}
                /\ sess[s].error.http = 400
                /\ sess[s].calls = 0
                /\ sess[s].expected_close_date = NoDate
                /\ sess[s].sduNew = <<>>)
    /\ [][\A s \in Sess :
            (Unresolved(sess'[s]) /\ sess'[s].pc # sess[s].pc) =>
                opps' = opps /\ sdus' = sdus /\ remote' = remote]_vars

UnresolvedFailsFirstWitness ==
    \E s, t \in Sess :
        /\ Unresolved(sess[s]) /\ sess[s].pc = "done"
        /\ sess[s].error.msg = "Opportunity not found"
        /\ Unresolved(sess[t]) /\ sess[t].pc = "done"
        /\ sess[t].error.msg = "Invalid opportunity id"
        /\ sdus = <<>> /\ \A o \in OrderIds : remote[o] = NoDate


\* The call reached update_sale_date and the transport raised.
TransportFailed(r) ==
    /\ SalesCall(r) /\ r.order # NoOrder /\ r.calls >= 1
    /\ r.remote_response.raises /\ r.pc \in {"raised", "done"}

\* C12 - Transport failure: when update_sale_date raises a transport failure
\* the call fails as it does for a reported rejection, with the RuntimeError
\* that the API answers with 502, it holds no SalesDateUpdate, and the end of
\* its scope leaves the Opportunity and SalesDateUpdate tables unchanged.
TransportFailureRejected ==
    /\ [](\A s \in Sess :
            TransportFailed(sess[s]) =>
                /\ sess[s].error.kind = "RuntimeError"
                /\ sess[s].error.http = 502
                /\ sess[s].sduNew = <<>>)
    /\ [][\A s \in Sess :
            (TransportFailed(sess[s]) /\ sess[s].pc = "raised" /\ sess'[s].pc = "done") =>
                opps' = opps /\ sdus' = sdus]_vars


\* C13 - Status resolution: every status value of the feed resolves without
\* failing - a canonical text to itself, a text canonical in lower case to
\* that status, anything else to issued - so no sync run ends by an error
\* raised while a status is resolved, and every Invoice a run holds to insert
\* carries the resolved status of a payload of its batch.
StatusResolution ==
    \A s \in Sess :
          SyncRun(sess[s]) =>
              /\ sess[s].error.kind # "AttributeError"
              /\ \A k \in Rows(sess[s].batch) :
                    k < sess[s].idx =>
                        ResolveStatus(sess[s].batch[k].status) =
                            CanonicalStatus(sess[s].batch[k].status)
              /\ \A i \in Rows(sess[s].invNew) :
                    \E k \in Rows(sess[s].batch) :
                        /\ sess[s].batch[k].external_id = sess[s].invNew[i].external_id
                        /\ sess[s].invNew[i].status = CanonicalStatus(sess[s].batch[k].status)


\* A status text that matches no canonical status, exactly or in lower case.
Unparseable(text) ==
    text # NoStatus /\ text \notin InvoiceStatus /\ Lower(text) \notin InvoiceStatus

\* The notes of a sequence of warnings that name the given invoice and are
\* not the unknown-opportunity warning.
StatusWarnings(notes, ext) ==
    {i \in Rows(notes) : /\ notes[i].external_id = ext
                         /\ notes[i].text # "Unknown opportunity for invoice"}

\* C14 - Unparseable status is a warning: a sync run that handled a payload
\* of a known order whose status text is unparseable goes on to its end, and
\* when it has returned its warnings and the details of its SyncLog hold a
\* warning for that payload.
UnparseableStatusWarned ==
    \A s \in Sess :
        LET r == sess[s]
        IN  (SyncRun(r) /\ r.pc = "commit") =>
              \A k \in ResolvedIn(r.batch) :
                  Unparseable(r.batch[k].status) =>
                      /\ r.result.returned
                      /\ StatusWarnings(r.result.warnings, r.batch[k].external_id) # {}
                      /\ Len(r.logNew) = 1
                      /\ StatusWarnings(r.logNew[1].details.notes,
                                        r.batch[k].external_id) # {}


\* The positions of the payloads a run has handled for an external id.
HandledFor(r, ext) ==
    {k \in ResolvedIn(r.batch) : k < r.idx /\ r.batch[k].external_id = ext}

\* The step by which the scope s commits.
Commits(s) == sess[s].pc = "commit" /\ sess'[s].pc = "done" /\ sess'[s].error = NoError

\* C15 - Update keeps the owner: an Invoice a sync run found stored holds,
\* after the run handled a payload for its external id, the amount, issue
\* date, due date, resolved status and currency of the last such payload and
\* the run's time as last_sync_at, with its external id and its owning
\* Opportunity as loaded, whatever Opportunity the payload names; no step
\* changes the owner of a stored Invoice, and a commit with no commit of
\* another scope since the run began stores the Invoice as the run holds it.
UpdateKeepsOwner ==
    /\ [](\A s \in Sess :
            SyncRun(sess[s]) =>
                \A i \in DOMAIN sess[s].invLoaded :
                    LET obj == sess[s].invLoaded[i]
                        handled == HandledFor(sess[s], obj.cur.external_id)
                    IN  /\ handled # {}
                        /\ HoldsPayload(obj.cur,
                               sess[s].batch[CHOOSE k \in handled : \A h \in handled : h <= k])
                        /\ obj.cur.last_sync_at = sess[s].run
                        /\ obj.cur.opportunity = obj.orig.opportunity
                        /\ obj.cur.external_id = obj.orig.external_id)
    /\ [][/\ \A i \in Rows(invoices) :
                /\ invoices'[i].opportunity = invoices[i].opportunity
                /\ invoices'[i].external_id = invoices[i].external_id
          /\ \A s \in Sess :
                (SyncRun(sess[s]) /\ Commits(s) /\ sess[s].clean) =>
                    \A i \in DOMAIN sess[s].invLoaded :
                        invoices'[i] = sess[s].invLoaded[i].cur]_vars

UpdateKeepsOwnerWitness ==
    \E s \in Sess :
        /\ EndedRun(sess[s]) /\ sess[s].error = NoError /\ sess[s].clean
        /\ Len(invoices) = 1 /\ invoices[1].external_id = "INV-1001"
        /\ invoices[1].status = "overdue" /\ invoices[1].last_sync_at = sess[s].run
        /\ invoices[1].opportunity = 1
        /\ GetByInforId("OPP-101") = {2}
        /\ sess[s].batch = <<Payload("INV-1001", "OPP-101", 10, "2024-01-01",
                                     "2024-01-01", "overdue", "USD")>>


\* C16 - Serialised sync runs: at every moment at most one run of
\* synchronise_invoices is between its start and the end of its scope.
SerialisedSyncRuns ==
    Cardinality({s \in Sess : SyncRun(sess[s]) /\ InFlight(s)}) <= 1


\* A run that went through its whole batch, of payloads with distinct
\* external ids, and came to the end of its scope.
WholeRun(r) ==
    /\ EndedRun(r) /\ r.result.returned
    /\ \A j, k \in Rows(r.batch) : j # k => r.batch[j].external_id # r.batch[k].external_id

\* The external ids that the batches of both runs hold with a known order.
SharedIds(a, b) ==
    {a.batch[k].external_id : k \in ResolvedIn(a.batch)}
        \cap {b.batch[k].external_id : k \in ResolvedIn(b.batch)}

\* C17 - Overlapping runs are safe: when two sync runs in separate scopes,
\* one after the other or at the same time, have handled batches that share
\* an external id, both ended without failure and the store holds exactly one
\* Invoice for that id, with all its fields from one payload of the two.
OverlappingRunsSafe ==
    \A s, t \in Sess :
        (s # t /\ WholeRun(sess[s]) /\ WholeRun(sess[t])) =>
            \A e \in SharedIds(sess[s], sess[t]) :
                /\ sess[s].error = NoError /\ sess[t].error = NoError
                /\ Cardinality(StoredFor(e)) = 1
                /\ \A i \in StoredFor(e) :
                      \E r \in {sess[s], sess[t]} : \E k \in ResolvedIn(r.batch) :
                          /\ r.batch[k].external_id = e
                          /\ HoldsPayload(invoices[i], r.batch[k])


\* ---------------------------------------------------------- report claims
\* The sum of amount over the rows of a table at the given positions.
RECURSIVE AmountOver(_, _)
AmountOver(rows, S) ==
    IF S = {} THEN 0
    ELSE LET i == CHOOSE j \in S : TRUE
         IN  rows[i].amount + AmountOver(rows, S \ {i})

\* The step is a request served by the given report.
Reports(kind) == count'.report = count.report + 1 /\ lastReport'.kind = kind

\* C18 - Dashboard arithmetic: the dashboard built over a store has as
\* total_open_pipeline the sum of amount of the Opportunities not in stage
\* won (lost ones count), as total_invoiced the sum of amount of all Invoices,
\* as total_paid the sum of amount of the Invoices with status paid, and as
\* overdue_invoices the number of Invoices with status overdue.
DashboardArithmetic ==
    [][Reports("dashboard") =>
        /\ lastReport'.error = NoError
        /\ lastReport'.total_open_pipeline =
              AmountOver(opps, {i \in Rows(opps) : opps[i].stage # "won"})
        /\ lastReport'.total_invoiced = AmountOver(invoices, Rows(invoices))
        /\ lastReport'.total_paid =
              AmountOver(invoices, {i \in Rows(invoices) : invoices[i].status = "paid"})
        /\ lastReport'.overdue_invoices =
              Cardinality({i \in Rows(invoices) : invoices[i].status = "overdue"})]_vars

DashboardArithmeticWitness ==
    /\ Len(opps) = 2 /\ {opps[1].stage, opps[2].stage} = {"prospect", "won"}
    /\ \E i \in Rows(opps) : opps[i].stage = "prospect" /\ opps[i].amount = 100
    /\ \E i \in Rows(opps) : opps[i].stage = "won" /\ opps[i].amount = 50
    /\ Len(invoices) = 2
    /\ invoices[1].status = "paid" /\ invoices[1].amount = 30
    /\ invoices[2].status = "overdue" /\ invoices[2].amount = 20
    /\ lastReport.kind = "dashboard"
    /\ lastReport.total_open_pipeline = 100 /\ lastReport.total_invoiced = 50
    /\ lastReport.total_paid = 30 /\ lastReport.overdue_invoices = 1


\* The invoices of a report are exactly the stored Invoices the Opportunity
\* owns, each once.
FullInvoiceList(list, o) ==
    LET owned == {i \in Rows(invoices) : invoices[i].opportunity = o}
    IN  /\ Len(list) = Cardinality(owned)
        /\ \A i \in owned : \E j \in Rows(list) : list[j] = invoices[i]

\* C19 - Opportunity report: a report request whose id is malformed or names
\* no Opportunity ends in the not-found condition, a client error the
\* caller can tell from an internal failure; any other request returns the
\* Opportunity with exactly the Invoices it owns, of every status and of no
\* other Opportunity.
OpportunityReportContract ==
    [][Reports("report") =>
        IF lastReport'.opportunity = 0
        THEN /\ lastReport'.error.kind = "ValueError"
             /\ lastReport'.error.http \in {400, 404}
        ELSE /\ lastReport'.error = NoError
             /\ lastReport'.opportunity \in Rows(opps)
             /\ FullInvoiceList(lastReport'.invoices, lastReport'.opportunity)]_vars


\* ------------------------------------------------------- lifecycle claims
\* C20 - Lifecycle exclusivity: a step that creates or changes an Invoice or
\* a SyncLog is the commit of a synchronise_invoices run, and no step of such
\* a run changes a Client, an Opportunity or a SalesDateUpdate; a step that
\* creates a SalesDateUpdate is the commit of an update_sales_date request,
\* and no step of such a request changes an Invoice, a SyncLog, a Client or
\* an Opportunity other than the one it addresses.
LifecycleExclusivity ==
    [][/\ (invoices' # invoices \/ synclogs' # synclogs) =>
              \E s \in Sess : SyncRun(sess[s]) /\ Commits(s)
       /\ sdus' # sdus =>
              \E s \in Sess : sess[s].op = "sales" /\ Commits(s)
       /\ \A s \in Sess :
              (SyncRun(sess'[s]) /\ sess'[s].pc # sess[s].pc) =>
                  clients' = clients /\ opps' = opps /\ sdus' = sdus
       /\ \A s \in Sess :
              (sess'[s].op = "sales" /\ sess'[s].pc # sess[s].pc) =>
                  /\ invoices' = invoices /\ synclogs' = synclogs /\ clients' = clients
                  /\ Len(opps') = Len(opps)
                  /\ \A o \in Rows(opps) : o # sess'[s].opp => opps'[o] = opps[o]]_vars

LifecycleExclusivityWitness ==
    /\ Len(invoices) >= 1 /\ Len(synclogs) >= 1 /\ Len(sdus) >= 1
    /\ \E s \in Sess : EndedRun(sess[s]) /\ sess[s].error = NoError
    /\ \E s \in Sess : SalesCall(sess[s]) /\ sess[s].pc = "done" /\ sess[s].error = NoError
    /\ opps[sdus[1].opp].expected_close_date = sdus[1].new_date


\* C21 - Reports are pure reads: a dashboard or opportunity-report request,
\* whether it returns or fails, leaves every Client, Opportunity, Invoice,
\* SalesDateUpdate and SyncLog as it was, touches no open scope and makes no
\* call of the external system.
ReportsArePureReads ==
    [][(Reports("dashboard") \/ Reports("report")) =>
          /\ clients' = clients /\ opps' = opps /\ invoices' = invoices
          /\ sdus' = sdus /\ synclogs' = synclogs
          /\ remote' = remote /\ sess' = sess]_vars

ReportsArePureReadsWitness ==
    /\ lastReport.kind = "report" /\ lastReport.error = NoError
    /\ lastReport.opportunity \in Rows(opps)
    /\ Len(lastReport.invoices) >= 1
    /\ Len(sdus) >= 1 /\ Len(synclogs) >= 1 /\ Len(clients) >= 1
    /\ remote["OPP-100"] # NoDate


\* C22 - Every renegotiation is recorded: once a call of update_sales_date
\* that found its Opportunity has come to the end of its scope, whether the
\* external system confirmed the change or rejected it, the stored history
\* of the Opportunity holds a SalesDateUpdate of that call.
EveryRenegotiationRecorded ==
    \A s \in Sess :
        LET r == sess[s]
        IN  (SalesCall(r) /\ r.pc = "done" /\ ~r.remote_response.raises) =>
              \E i \in Rows(sdus) :
                  /\ sdus[i].opp = r.opp
                  /\ sdus[i].new_date = r.new_date
                  /\ sdus[i].updated_by = r.updated_by
                  /\ sdus[i].synced_with_infor =
                        (r.order # NoOrder /\ r.remote_response.success)


\* The step by which the scope of a call that found its Opportunity ends.
EndsSalesCall(s) == SalesCall(sess[s]) /\ sess[s].pc # "done" /\ sess'[s].pc = "done"

\* C22, as the code has it - Successful renegotiations are recorded: the
\* scope of a call that found its Opportunity ends either by a commit, which
\* adds exactly one SalesDateUpdate of the call to the stored history (synced
\* when the Opportunity has an order id, which then was confirmed), or, after
\* a rejection or a failure, by a rollback that adds none.
SuccessfulRenegotiationRecorded ==
    [][\A s \in Sess :
          EndsSalesCall(s) =>
              IF Commits(s)
              THEN /\ sess[s].order # NoOrder => sess[s].remote_response.success
                   /\ sdus' = Append(sdus, OwedUpdate(sess[s], sess[s].order # NoOrder,
                                                      sess[s].remote_response.reference))
              ELSE /\ sess'[s].error.kind \in {"RuntimeError", "ConnectionError"}
                   /\ sdus' = sdus]_vars

SuccessfulRenegotiationWitness ==
    \E s, t \in Sess :
        /\ SalesCall(sess[s]) /\ sess[s].pc = "done" /\ sess[s].error = NoError
        /\ sess[s].order # NoOrder
        /\ RejectedWithMessage(sess[t]) /\ sess[t].pc = "done"
        /\ Len(sdus) = 1 /\ sdus[1].opp = sess[s].opp /\ sdus[1].synced_with_infor


\* C23 - Batch accounting: for a sync run that went through all its
\* payloads, processed plus the number of warnings is the number of payloads
\* fetched, processed is the number of payloads whose order is that of a
\* stored Opportunity (payloads, not Invoices), and the warnings returned are
\* the warnings in the details of the run's SyncLog, pending and then stored.
BatchAccounting ==
    \A s \in Sess :
        LET r == sess[s]
        IN  (SyncRun(r) /\ r.result.returned) =>
              /\ r.result.processed + Len(r.result.warnings) = Len(r.batch)
              /\ r.result.processed = Cardinality(ResolvedIn(r.batch))
              /\ r.pc \in {"commit", "done"}
              /\ r.pc = "commit" =>
                    /\ Len(r.logNew) = 1
                    /\ r.logNew[1].details.notes = r.result.warnings
                    /\ r.logNew[1].details.count = r.result.processed
              /\ (r.pc = "done" /\ r.error = NoError) =>
                    \E i \in Rows(synclogs) :
                        /\ synclogs[i].executed_at = r.run
                        /\ synclogs[i].details.notes = r.result.warnings
                        /\ synclogs[i].details.count = r.result.processed

BatchAccountingWitness ==
    \E s \in Sess :
        /\ EndedRun(sess[s]) /\ sess[s].error = NoError /\ sess[s].result.returned
        /\ Len(sess[s].batch) = 2
        /\ sess[s].batch[1].external_id = sess[s].batch[2].external_id
        /\ sess[s].result.processed = 2
        /\ Len(invoices) = 1
        /\ \E t \in Sess :
              /\ EndedRun(sess[t]) /\ sess[t].result.returned
              /\ Len(sess[t].result.warnings) = 1 /\ sess[t].result.processed = 1


\* C24 - A failed run stores nothing: no step of a sync run other than its
\* commit changes the stored Invoices, so a run that fails, in its loop after
\* it merged payloads or at its commit, leaves them as they were; once its
\* scope has ended no stored Invoice carries the time of that run.
FailedRunStoresNothing ==
    /\ [](\A s \in Sess :
            (EndedRun(sess[s]) /\ sess[s].error # NoError) =>
                \A i \in Rows(invoices) : invoices[i].last_sync_at # sess[s].run)
    /\ [][\A s \in Sess :
            (SyncRun(sess'[s]) /\ sess'[s].pc # sess[s].pc /\ ~Commits(s)) =>
                invoices' = invoices]_vars

FailedRunStoresNothingWitness ==
    \E s \in Sess :
        /\ EndedRun(sess[s]) /\ sess[s].error.kind = "AttributeError"
        /\ sess[s].processed = 1 /\ sess[s].idx = 2
        /\ sess[s].clean
        /\ invoices = <<>>


\* C25 - Audit chain continuity: in the stored history of every Opportunity
\* each SalesDateUpdate after the first has as previous_date the new_date of
\* the record before it.
AuditChainContinuity ==
    \A o \in Rows(opps) :
        LET updates == History(sdus, o)
        IN  \A i \in 2..Len(updates) :
                updates[i].previous_date = updates[i - 1].new_date


\* C26 - Sync flag of the audit trail: a SalesDateUpdate, pending or stored,
\* has synced_with_infor = true exactly when its Opportunity has an order id,
\* and a pending one then follows one call of update_sale_date that reported
\* success; a record with synced_with_infor = false has no sync_reference and
\* belongs to an Opportunity without order id.
SyncFlagInvariant ==
    /\ \A i \in Rows(sdus) :
          /\ sdus[i].synced_with_infor =
                (opps[sdus[i].opp].infor_sales_order_id # NoOrder)
          /\ ~sdus[i].synced_with_infor => sdus[i].sync_reference = NoRef
    /\ \A s \in Sess : \A i \in Rows(sess[s].sduNew) :
          LET u == sess[s].sduNew[i]
          IN  /\ u.synced_with_infor =
                    (/\ opps[u.opp].infor_sales_order_id # NoOrder
                     /\ sess[s].calls = 1
                     /\ ~sess[s].remote_response.raises
                     /\ sess[s].remote_response.success)
              /\ u.synced_with_infor = (sess[s].order # NoOrder)
              /\ ~u.synced_with_infor => u.sync_reference = NoRef

SyncFlagInvariantWitness ==
    \E i, j \in Rows(sdus) :
        /\ sdus[i].synced_with_infor /\ sdus[i].sync_reference = "UPD-1"
        /\ opps[sdus[i].opp].infor_sales_order_id = "OPP-100"
        /\ ~sdus[j].synced_with_infor /\ sdus[j].sync_reference = NoRef
        /\ opps[sdus[j].opp].infor_sales_order_id = NoOrder


\* C27 - Cross-system agreement: whenever no call of update_sales_date is
\* in flight, every Opportunity with an order id for which the external
\* system has accepted a date holds, stored, the date accepted last.
CrossSystemAgreement ==
    (\A s \in Sess : sess[s].op = "sales" => Free(s)) =>
        \A o \in Rows(opps) :
            LET order == opps[o].infor_sales_order_id
            IN  (order # NoOrder /\ remote[order] # NoDate) =>
                    remote[order] = opps[o].expected_close_date

=============================================================================
